---- MODULE Spec2Model ----
(***************************************************************************)
(* Client-side real-time state synchronisation of the grid-bot frontend:   *)
(* the Layout component (push channel, BotStatus, price tracker), the      *)
(* StrategiesPage component (lifecycle commands, startup progress), the    *)
(* StrategyDetailPage component (lifecycle commands of one strategy), the  *)
(* useSignalsWS hook and the ToastProvider component.                      *)
(*                                                                         *)
(* Every handler runs as one non-preemptible turn of the browser event     *)
(* loop, so every handler is one action.  React state is modelled by its   *)
(* committed value; an effect is a separate action that runs when one of   *)
(* its dependencies changed since it last ran.  A setter of a component    *)
(* that has unmounted does nothing.                                        *)
(***************************************************************************)
EXTENDS Integers, Sequences, FiniteSets, TLC

(* ---------------------------------------------------------------------- *)
(* Bounds of the model                                                     *)
(* ---------------------------------------------------------------------- *)
\* connection attempts (new WebSocket) the environment may force
MaxAttempts == 3
\* external events: frames the push channel delivers, lifecycle commands
\* the operator issues, and firings of the polling interval
MaxEvents == 3
\* lifecycle commands the operator issues on one page, and reloads of the
\* detail page's interval in flight at once
MaxPending == 2
\* seconds the clock advances
MaxSeconds == 6

(* ---------------------------------------------------------------------- *)
(* JavaScript values                                                       *)
(* ---------------------------------------------------------------------- *)
\* null and undefined, encoded next to the numeric ids 1, 2, ...
Null == 0
Undefined == 0 - 1

\* setTimeout(connectWebSocket, 3000)
ReconnectDelay == 3000

VARIABLES
    \* Layout, WebSocket effect closure
    isMounted,        \* let isMounted = true
    ws,               \* let ws: WebSocket | null  (index into sockets, Null)
    reconnectTimer,   \* let reconnectTimer        (timer id, Undefined)
    \* browser
    sockets,          \* every WebSocket constructed so far
    timers,           \* pending setTimeout timers: {[id, delay]}
    attempts,         \* number of `new WebSocket` evaluations so far
    timerSeq,         \* number of setTimeout calls so far
    \* Layout state
    lastMessage,      \* botStatus.lastMessage
    frameSeq,         \* number of frames parsed so far
    toasts,           \* toasts: <<[id, type, message]>>
    nextToastId,      \* nextToastId.current
    \* StrategiesPage state
    strategies,       \* strategies, as id -> status ("ABSENT": not in the list)
    loading,
    actionLoading,
    errorMessage,
    confirmModal,
    startingStrategyId,
    startingProgress,
    \* StrategiesPage effects: the dependencies as of the last run
    msgDirty,         \* botStatus.lastMessage is a new object since the last run
    seenSid,          \* startingStrategyId as of the last run
    errSeen,          \* errorMessage as of the last run
    \* HTTP
    cmds,             \* lifecycle commands: <<[id, action, phase]>>
    loads,            \* fetchStrategies requests in flight, oldest first: <<[cont]>>
    \* StrategyDetailPage state
    detailStrategy,   \* strategy, as its status ("NULL": null)
    detailLoading,    \* loading
    detailModal,      \* confirmModal: [show, action]; onConfirm is doAction of action
    detailInterval,   \* the interval of the mount effect is set
    detailCmds,       \* lifecycle commands of doAction: <<[action, phase]>>
    detailLoads,      \* loadData() calls in flight
    \* Layout state: BotStatus and the price tracker
    running,          \* botStatus.running
    logged_in,        \* botStatus.logged_in
    current_price,    \* botStatus.current_price
    priceHistory,     \* priceHistory: <<[price, ts]>>
    priceTrend,       \* priceTrend
    now,              \* Date.now()
    polls,            \* fetchStatus requests in flight: <<[stale]>>
    pollSeq,          \* number of fetchStatus calls so far
    \* history, read by the properties only
    matched,          \* matching order_created frames received since the start
    staleAtStart,     \* lastMessage matched the id when the start was issued
    startedSeen,      \* pending id for which a strategy_started frame arrived
    failure,          \* the error of the lifecycle command that failed last
    lastFromPush,     \* the newest sample of priceHistory was pushed, not polled
    \* Layout, ws.onmessage: the frames JSON.parse rejected
    dropped,          \* number of console.error calls of the catch block
    afterDrop,        \* history: the frame in lastMessage came after a dropped one
    \* useSignalsWS
    signalsWs,        \* readyState of its WebSocket
    signals,          \* signals: <<[id, rev]>>
    signalSeq,        \* number of frames its handler parsed so far
    signalDropped,    \* number of console.error calls of its catch block
    \* Layout, polling effect
    pollTimers,       \* periods of the intervals set and not cleared, oldest first
    pollSeen,         \* botStatus.logged_in as of the last run of the effect
    \* StrategiesPage, mount effect
    pageMounted,      \* the page is mounted
    listInterval,     \* the interval of the mount effect is set
    staleLoads,       \* history: how many of the oldest requests in flight were
                      \* issued before the one whose response is displayed
    \* ToastProvider
    providerToasts,   \* toasts: <<[id, type, message]>>
    expiries          \* pending setTimeout callbacks of showToast: <<[id, due]>>

wsVars == <<isMounted, ws, reconnectTimer, sockets, timers, attempts, timerSeq>>
layoutVars == <<lastMessage, frameSeq, toasts, nextToastId>>
pageVars == <<strategies, loading, actionLoading, errorMessage, confirmModal,
              startingStrategyId, startingProgress, msgDirty, seenSid, errSeen,
              cmds, loads>>
detailVars == <<detailStrategy, detailLoading, detailModal, detailInterval,
                detailCmds, detailLoads>>
priceVars == <<running, logged_in, current_price, priceHistory, priceTrend,
               now, polls, pollSeq, lastFromPush>>
histVars == <<matched, staleAtStart, startedSeen, failure>>
dropVars == <<dropped, afterDrop>>
signalVars == <<signalsWs, signals, signalSeq, signalDropped>>
\* what the handlers of the price tracker, the pages and the reconnection
\* never touch
pollVars == <<pollTimers, pollSeen>>
mountVars == <<pageMounted, listInterval>>
providerVars == <<providerToasts, expiries>>
restVars == <<dropVars, signalVars, pollVars, mountVars, staleLoads, providerVars>>
vars == <<isMounted, ws, reconnectTimer, sockets, timers, attempts, timerSeq,
          lastMessage, frameSeq, toasts, nextToastId,
          strategies, loading, actionLoading, errorMessage, confirmModal,
          startingStrategyId, startingProgress, msgDirty, seenSid, errSeen,
          cmds, loads, detailStrategy, detailLoading, detailModal,
          detailInterval, detailCmds, detailLoads,
          running, logged_in, current_price, priceHistory, priceTrend,
          now, polls, pollSeq,
          matched, staleAtStart, startedSeen, failure, lastFromPush,
          dropped, afterDrop, signalsWs, signals, signalSeq, signalDropped,
          pollTimers, pollSeen, pageMounted, listInterval, staleLoads,
          providerToasts, expiries>>

(* ---------------------------------------------------------------------- *)
(* Push frames                                                             *)
(* ---------------------------------------------------------------------- *)
\* the values a field of a parsed JSON document holds: a number (Infinity
\* when the literal overflows), a string, null, or nothing; NaN is what
\* Number() makes of a string that is no numeral
JsNumber(n) == [t |-> "number", n |-> n, s |-> <<>>]
JsString(s) == [t |-> "string", n |-> 0, s |-> s]
JsInfinity == [t |-> "Infinity", n |-> 0, s |-> <<>>]
JsNaN == [t |-> "NaN", n |-> 0, s |-> <<>>]
JsNull == [t |-> "null", n |-> 0, s |-> <<>>]
JsUndefined == [t |-> "undefined", n |-> 0, s |-> <<>>]
JsTrue == [t |-> "boolean", n |-> 1, s |-> <<>>]
JsFalse == [t |-> "boolean", n |-> 0, s |-> <<>>]

\* a parsed frame {type, data: {strategy_id, price}}; hasData = FALSE: no data
Frame(t, d, sid) == [type |-> t, hasData |-> d, sid |-> sid, price |-> JsUndefined]

\* a parsed frame {type: 'price_update', data: {price}}
PriceFrame(d, price) ==
    [type |-> "price_update", hasData |-> d, sid |-> Undefined, price |-> price]

\* botStatus.lastMessage before any frame arrived: null
NoMessage == Frame("null", FALSE, Undefined)

\* frames that take no branch of any handler
WsFrames == {Frame("other", TRUE, Undefined)}

\* strategy ids, and the value of data.strategy_id in a frame: an id, null
\* (Order.strategy_id: number | null) or missing
Ids == {1, 2}
FrameIds == Ids \cup {Null, Undefined}

\* order_created and strategy_started frames, with and without data
StartFrames ==
    {Frame(t, TRUE, i) : t \in {"order_created", "strategy_started"}, i \in FrameIds}
    \cup {Frame(t, FALSE, Undefined) : t \in {"order_created", "strategy_started"}}

Frames == StartFrames \cup WsFrames

(* ---------------------------------------------------------------------- *)
(* Layout: the price tracker                                               *)
(* ---------------------------------------------------------------------- *)
\* null in a slot of type number | null; the numbers modelled are not negative
NullPrice == 0 - 1

\* the sampling window of the price history, in ms
Window == 5000

\* value.replace(/,/g, '')
StripCommas(s) == SelectSeq(s, LAMBDA c : c # ",")

Digit == [c \in {"0", "1", "2", "3", "4", "5", "6", "7", "8", "9"} |->
            CASE c = "0" -> 0 [] c = "1" -> 1 [] c = "2" -> 2 [] c = "3" -> 3
              [] c = "4" -> 4 [] c = "5" -> 5 [] c = "6" -> 6 [] c = "7" -> 7
              [] c = "8" -> 8 [] c = "9" -> 9]

RECURSIVE Decimal(_)
Decimal(s) == IF s = <<>> THEN 0
              ELSE Decimal(SubSeq(s, 1, Len(s) - 1)) * 10 + Digit[s[Len(s)]]

\* Number(s) for a string of digits and other characters: 0 for the empty
\* string, the value of a numeral, NaN otherwise
ToNumber(s) ==
    IF s = <<>> THEN JsNumber(0)
    ELSE IF \A i \in DOMAIN s : s[i] \in DOMAIN Digit THEN JsNumber(Decimal(s))
    ELSE JsNaN

\* the truthiness of a value
Truthy(value) ==
    \/ value.t = "Infinity"
    \/ value.t = "number" /\ value.n # 0
    \/ value.t = "boolean" /\ value.n # 0
    \/ value.t = "string" /\ value.s # <<>>

\* normalizePrice(value): a finite number, or null
NormalizePrice(value) ==
    IF value.t \in {"null", "undefined"} THEN NullPrice
    ELSE LET num == IF value.t = "string" THEN ToNumber(StripCommas(value.s))
                    ELSE value
         IN IF num.t = "number" THEN num.n ELSE NullPrice

\* the same filter with a strict comparison
Pruned_Strict(history, price, t) ==
    SelectSeq(Append(history, [price |-> price, ts |-> t]),
              LAMBDA p : t - p.ts < Window)

\* [...prev, {price, ts: now}].filter(p => now - p.ts <= 5000)
Pruned(history, price, t) ==
    SelectSeq(Append(history, [price |-> price, ts |-> t]),
              LAMBDA p : t - p.ts <= Window)

\* the comparison turned around
TrendOf_Inverted(price, oldest) ==
    IF price > oldest.price THEN "down"
    ELSE IF price < oldest.price THEN "up" ELSE "flat"

\* price > oldest.price ? 'up' : price < oldest.price ? 'down' : 'flat'
TrendOf(price, oldest) ==
    IF price > oldest.price THEN "up"
    ELSE IF price < oldest.price THEN "down" ELSE "flat"

\* updatePrice(value)
UpdatePrice(value) ==
    LET price == NormalizePrice(value)
        next == Pruned(priceHistory, price, now)
    IN IF price = NullPrice
       THEN UNCHANGED <<current_price, priceHistory, priceTrend>>
       ELSE /\ current_price' = price
            /\ priceHistory' = next
            /\ priceTrend' = IF next # <<>> THEN TrendOf(price, next[1])
                              ELSE priceTrend

(* ---------------------------------------------------------------------- *)
(* Layout: the general push channel                                        *)
(* ---------------------------------------------------------------------- *)
Live(s) == sockets[s].state \in {"connecting", "open"}
LiveSockets == {s \in DOMAIN sockets : Live(s)}

NewSocket == [state |-> "connecting", onclose |-> TRUE,
              evError |-> FALSE, evClose |-> FALSE]

\* the id setTimeout returns: fresh for every call
NextTimerId == timerSeq + 1

\* reconnectTimer = setTimeout(connectWebSocket, 3000), given the pending timers tm
SetReconnectTimer(tm) ==
    /\ reconnectTimer' = NextTimerId
    /\ timerSeq' = timerSeq + 1
    /\ timers' = tm \cup {[id |-> NextTimerId, delay |-> ReconnectDelay]}

\* the external events so far
Events == frameSeq + Len(cmds) + Len(detailCmds) + pollSeq
          + dropped + signalSeq + signalDropped

\* WebSocket.close(): CONNECTING/OPEN -> CLOSING, otherwise a no-op
CloseSocket(socks, s) ==
    IF s # Null /\ socks[s].state \in {"connecting", "open"}
    THEN [socks EXCEPT ![s].state = "closing"]
    ELSE socks

\* connectWebSocket, entered with the pending timers tm; the constructor
\* either returns a socket or throws
ConnectWebSocket_NoRetry(tm) ==
    IF ~isMounted
    THEN /\ timers' = tm
         /\ UNCHANGED <<isMounted, ws, reconnectTimer, sockets, attempts, timerSeq>>
    ELSE \/ /\ sockets' = Append(sockets, NewSocket)
            /\ ws' = Len(sockets) + 1
            /\ timers' = tm
            /\ attempts' = attempts + 1
            /\ UNCHANGED <<isMounted, reconnectTimer, timerSeq>>
         \/ /\ attempts + 1 < MaxAttempts
            /\ attempts' = attempts + 1
            /\ timers' = tm
            /\ UNCHANGED <<isMounted, ws, sockets, reconnectTimer, timerSeq>>

ConnectWebSocket(tm) ==
    IF ~isMounted
    THEN /\ timers' = tm
         /\ UNCHANGED <<isMounted, ws, reconnectTimer, sockets, attempts, timerSeq>>
    ELSE \/ /\ sockets' = Append(sockets, NewSocket)
            /\ ws' = Len(sockets) + 1
            /\ timers' = tm
            /\ attempts' = attempts + 1
            /\ UNCHANGED <<isMounted, reconnectTimer, timerSeq>>
         \/ \* new WebSocket throws: catch, retry in 3 s
            /\ attempts + 1 < MaxAttempts
            /\ attempts' = attempts + 1
            /\ SetReconnectTimer(tm)
            /\ UNCHANGED <<isMounted, ws, sockets>>

\* the reconnect timer fires
TimerFire ==
    /\ \E t \in timers : ConnectWebSocket(timers \ {t})
    /\ UNCHANGED <<layoutVars, pageVars, detailVars, priceVars, histVars, restVars>>

\* ws.onopen
WsOpen ==
    /\ \E s \in DOMAIN sockets :
          /\ sockets[s].state = "connecting"
          /\ sockets' = [sockets EXCEPT ![s].state = "open"]
    /\ UNCHANGED <<isMounted, ws, reconnectTimer, timers, attempts, timerSeq>>
    /\ UNCHANGED <<layoutVars, pageVars, detailVars, priceVars, histVars, restVars>>

\* the remote end closes a live connection: readyState CLOSED, close event queued
NetClose ==
    /\ attempts < MaxAttempts
    /\ \E s \in DOMAIN sockets :
          /\ Live(s)
          /\ sockets' = [sockets EXCEPT ![s].state = "closed", ![s].evClose = TRUE]
    /\ UNCHANGED <<isMounted, ws, reconnectTimer, timers, attempts, timerSeq>>
    /\ UNCHANGED <<layoutVars, pageVars, detailVars, priceVars, histVars, restVars>>

\* a live connection fails: an error event is queued; the connection is
\* either already closed (the close event follows the error event) or the
\* error event is dispatched while the socket is still live
NetError ==
    /\ attempts < MaxAttempts
    /\ \E s \in DOMAIN sockets :
          /\ Live(s)
          /\ ~sockets[s].evError
          /\ \/ sockets' = [sockets EXCEPT ![s].state = "closed",
                                           ![s].evError = TRUE,
                                           ![s].evClose = TRUE]
             \/ sockets' = [sockets EXCEPT ![s].evError = TRUE]
    /\ UNCHANGED <<isMounted, ws, reconnectTimer, timers, attempts, timerSeq>>
    /\ UNCHANGED <<layoutVars, pageVars, detailVars, priceVars, histVars, restVars>>

\* the closing handshake started by close() completes
CloseDone ==
    /\ \E s \in DOMAIN sockets :
          /\ sockets[s].state = "closing"
          /\ sockets' = [sockets EXCEPT ![s].state = "closed", ![s].evClose = TRUE]
    /\ UNCHANGED <<isMounted, ws, reconnectTimer, timers, attempts, timerSeq>>
    /\ UNCHANGED <<layoutVars, pageVars, detailVars, priceVars, histVars, restVars>>

\* ws.onerror = () => { ws?.close(); } that also schedules a reconnect
OnError_AlsoReconnects ==
    /\ \E s \in DOMAIN sockets :
          /\ sockets[s].evError
          /\ sockets' = CloseSocket([sockets EXCEPT ![s].evError = FALSE], ws)
    /\ IF isMounted
       THEN SetReconnectTimer(timers)
       ELSE UNCHANGED <<reconnectTimer, timers, timerSeq>>
    /\ UNCHANGED <<isMounted, ws, attempts>>
    /\ UNCHANGED <<layoutVars, pageVars, detailVars, priceVars, histVars, restVars>>

\* ws.onerror = () => { ws?.close(); }
OnError ==
    /\ \E s \in DOMAIN sockets :
          /\ sockets[s].evError
          /\ sockets' = CloseSocket([sockets EXCEPT ![s].evError = FALSE], ws)
    /\ UNCHANGED <<isMounted, ws, reconnectTimer, timers, attempts, timerSeq>>
    /\ UNCHANGED <<layoutVars, pageVars, detailVars, priceVars, histVars, restVars>>

\* the close event of a socket is dispatched (after its error event, if any):
\* ws.onclose = () => { if (isMounted) reconnectTimer = setTimeout(..., 3000) }
OnClose ==
    /\ \E s \in DOMAIN sockets :
          /\ sockets[s].evClose
          /\ ~sockets[s].evError
          /\ sockets' = [sockets EXCEPT ![s].evClose = FALSE]
          /\ IF sockets[s].onclose /\ isMounted
             THEN SetReconnectTimer(timers)
             ELSE UNCHANGED <<reconnectTimer, timers, timerSeq>>
    /\ UNCHANGED <<isMounted, ws, attempts>>
    /\ UNCHANGED <<layoutVars, pageVars, detailVars, priceVars, histVars, restVars>>

\* ws.onmessage for a frame that parses to f
OnMessage(f) ==
    /\ Events < MaxEvents
    /\ \E s \in DOMAIN sockets : sockets[s].state \in {"open", "closing"}
    /\ IF ~isMounted
       THEN UNCHANGED <<lastMessage, frameSeq, msgDirty, histVars,
                        current_price, priceHistory, priceTrend,
                        lastFromPush, polls, afterDrop>>
       ELSE /\ lastMessage' = f
            /\ frameSeq' = frameSeq + 1
            /\ afterDrop' = (dropped > 0)
            /\ msgDirty' = TRUE
            /\ matched' = IF /\ f.type = "order_created" /\ f.hasData
                             /\ startingStrategyId # Null
                             /\ f.sid = startingStrategyId
                          THEN matched + 1 ELSE matched
            /\ startedSeen' = IF /\ f.type = "strategy_started" /\ f.hasData
                                 /\ startingStrategyId # Null
                                 /\ f.sid = startingStrategyId
                              THEN startingStrategyId ELSE startedSeen
            /\ UNCHANGED <<staleAtStart, failure>>
            /\ IF f.type = "price_update" /\ f.hasData /\ Truthy(f.price)
               THEN /\ UpdatePrice(f.price)
                    /\ IF NormalizePrice(f.price) # NullPrice
                       THEN /\ lastFromPush' = TRUE
                            /\ polls' = [i \in DOMAIN polls |-> [stale |-> TRUE]]
                       ELSE UNCHANGED <<lastFromPush, polls>>
               ELSE UNCHANGED <<current_price, priceHistory, priceTrend,
                                lastFromPush, polls>>
    /\ UNCHANGED <<toasts, nextToastId>>
    /\ UNCHANGED <<strategies, loading, actionLoading, errorMessage, confirmModal,
                   startingStrategyId, startingProgress, seenSid, errSeen,
                   cmds, loads>>
    /\ UNCHANGED <<running, logged_in, now, pollSeq>>
    /\ UNCHANGED <<wsVars, detailVars, dropped, signalVars, pollVars>>
    /\ UNCHANGED <<mountVars, staleLoads, providerVars>>

\* ws.onmessage for a frame JSON.parse rejects, the catch block closing the
\* connection
OnMalformed_Closes ==
    /\ Events < MaxEvents
    /\ isMounted
    /\ \E s \in DOMAIN sockets :
          /\ sockets[s].state \in {"open", "closing"}
          /\ sockets' = CloseSocket(sockets, s)
    /\ dropped' = dropped + 1
    /\ UNCHANGED <<isMounted, ws, reconnectTimer, timers, attempts, timerSeq>>
    /\ UNCHANGED <<afterDrop, signalVars, pollVars>>
    /\ UNCHANGED <<mountVars, staleLoads, providerVars>>
    /\ UNCHANGED <<layoutVars, pageVars, detailVars, priceVars, histVars>>

\* ws.onmessage for a frame JSON.parse rejects: the catch block logs it
OnMalformed ==
    /\ Events < MaxEvents
    /\ isMounted
    /\ \E s \in DOMAIN sockets : sockets[s].state \in {"open", "closing"}
    /\ dropped' = dropped + 1
    /\ UNCHANGED <<afterDrop, signalVars, pollVars>>
    /\ UNCHANGED <<mountVars, staleLoads, providerVars>>
    /\ UNCHANGED <<wsVars, layoutVars, pageVars, detailVars, priceVars, histVars>>

\* clearInterval(timer) in the cleanup of the polling effect: the interval
\* its last run has set is no longer active
ClearInterval(tms) == SubSeq(tms, 1, Len(tms) - 1)

\* the cleanups of Layout that leave the reconnect timer running
Teardown_NoClearTimeout ==
    /\ isMounted
    /\ isMounted' = FALSE
    /\ sockets' = IF ws # Null
                  THEN CloseSocket([sockets EXCEPT ![ws].onclose = FALSE], ws)
                  ELSE sockets
    /\ pollTimers' = ClearInterval(pollTimers)
    /\ UNCHANGED <<ws, reconnectTimer, attempts, timers, timerSeq>>
    /\ pageMounted' = FALSE
    /\ listInterval' = FALSE
    /\ detailInterval' = FALSE
    /\ UNCHANGED <<detailStrategy, detailLoading, detailModal, detailCmds,
                   detailLoads>>
    /\ UNCHANGED <<layoutVars, pageVars, priceVars, histVars>>
    /\ UNCHANGED <<dropVars, signalVars, pollSeen, staleLoads, providerVars>>

\* Layout unmounts, and the page it shows with it: the cleanups of the
\* WebSocket effect, of the polling effect and of the mount effect of the page
Teardown ==
    /\ isMounted
    /\ isMounted' = FALSE
    /\ timers' = {t \in timers : t.id # reconnectTimer}
    /\ sockets' = IF ws # Null
                  THEN CloseSocket([sockets EXCEPT ![ws].onclose = FALSE], ws)
                  ELSE sockets
    /\ pollTimers' = ClearInterval(pollTimers)
    /\ UNCHANGED <<ws, reconnectTimer, attempts, timerSeq>>
    /\ pageMounted' = FALSE
    /\ listInterval' = FALSE
    /\ detailInterval' = FALSE
    /\ UNCHANGED <<detailStrategy, detailLoading, detailModal, detailCmds,
                   detailLoads>>
    /\ UNCHANGED <<layoutVars, pageVars, priceVars, histVars>>
    /\ UNCHANGED <<dropVars, signalVars, pollSeen, staleLoads, providerVars>>

(* ---------------------------------------------------------------------- *)
(* Layout: the polling of /bot/status, and the clock                       *)
(* ---------------------------------------------------------------------- *)
\* the requests in flight without the i-th
WithoutPoll(i) == [j \in 1..(Len(polls) - 1) |-> IF j < i THEN polls[j] ELSE polls[j + 1]]

\* the interval of the polling effect fires: fetchStatus() up to its await
PollTick ==
    /\ Events < MaxEvents
    /\ pollTimers # <<>>
    /\ polls' = Append(polls, [stale |-> FALSE])
    /\ pollSeq' = pollSeq + 1
    /\ UNCHANGED <<running, logged_in, current_price, priceHistory, priceTrend,
                   now, lastFromPush>>
    /\ UNCHANGED <<wsVars, restVars, layoutVars, pageVars, detailVars, histVars>>

\* the merge of a snapshot without the fallback to the previous price
PollResolve_NoFallback(data) ==
    \E i \in DOMAIN polls :
       LET price == NormalizePrice(data.current_price)
       IN /\ polls' = WithoutPoll(i)
          /\ IF ~isMounted
             THEN UNCHANGED <<running, logged_in, current_price, priceHistory,
                              priceTrend, lastFromPush>>
             ELSE /\ running' = data.running
                  /\ logged_in' = data.logged_in
                  /\ IF price # NullPrice
                     THEN UpdatePrice(JsNumber(price)) /\ lastFromPush' = FALSE
                     ELSE /\ current_price' = price
                          /\ UNCHANGED <<priceHistory, priceTrend, lastFromPush>>
          /\ UNCHANGED <<now, pollSeq>>
          /\ UNCHANGED <<wsVars, restVars, layoutVars, pageVars, detailVars, histVars>>

\* fetchStatus() after its await, the request having resolved with data; the
\* setters of a component that has unmounted do nothing
PollResolve(data) ==
    \E i \in DOMAIN polls :
       LET price == NormalizePrice(data.current_price)
       IN /\ polls' = WithoutPoll(i)
          /\ IF ~isMounted
             THEN UNCHANGED <<running, logged_in, current_price, priceHistory,
                              priceTrend, lastFromPush>>
             ELSE /\ running' = data.running
                  /\ logged_in' = data.logged_in
                  /\ IF price # NullPrice
                     THEN UpdatePrice(JsNumber(price)) /\ lastFromPush' = FALSE
                     ELSE UNCHANGED <<current_price, priceHistory, priceTrend,
                                      lastFromPush>>
          /\ UNCHANGED <<now, pollSeq>>
          /\ UNCHANGED <<wsVars, restVars, layoutVars, pageVars, detailVars, histVars>>

\* the catch block of fetchStatus() clearing the interval
PollReject_StopsPolling ==
    \E i \in DOMAIN polls :
       /\ polls' = WithoutPoll(i)
       /\ pollTimers' = ClearInterval(pollTimers)
       /\ UNCHANGED <<running, logged_in, current_price, priceHistory, priceTrend,
                      now, pollSeq, lastFromPush>>
       /\ UNCHANGED <<wsVars, layoutVars, pageVars, detailVars, histVars>>
       /\ UNCHANGED <<dropVars, signalVars, pollSeen>>
       /\ UNCHANGED <<mountVars, staleLoads, providerVars>>

\* fetchStatus() after its await, the request having rejected: the catch block
PollReject ==
    \E i \in DOMAIN polls :
       /\ polls' = WithoutPoll(i)
       /\ UNCHANGED <<running, logged_in, current_price, priceHistory, priceTrend,
                      now, pollSeq, lastFromPush>>
       /\ UNCHANGED <<wsVars, restVars, layoutVars, pageVars, detailVars, histVars>>

\* const intervalMs = botStatus.logged_in ? 15000 : 3000
IntervalMs == IF Truthy(logged_in) THEN 15000 ELSE 3000

\* the polling effect has to run: a dependency changed while Layout is mounted
PollEffectDue == isMounted /\ logged_in # pollSeen

\* the polling effect re-running without the cleanup of its last run
PollEffect_NoClear ==
    /\ PollEffectDue
    /\ Events < MaxEvents
    /\ polls' = Append(polls, [stale |-> FALSE])
    /\ pollSeq' = pollSeq + 1
    /\ pollTimers' = Append(pollTimers, IntervalMs)
    /\ pollSeen' = logged_in
    /\ UNCHANGED <<running, logged_in, current_price, priceHistory, priceTrend,
                   now, lastFromPush>>
    /\ UNCHANGED <<wsVars, layoutVars, pageVars, detailVars, histVars>>
    /\ UNCHANGED <<dropVars, signalVars, mountVars, staleLoads, providerVars>>

\* the polling effect re-runs: the cleanup of its last run, fetchStatus() up
\* to its await, setInterval
PollEffect ==
    /\ PollEffectDue
    /\ Events < MaxEvents
    /\ polls' = Append(polls, [stale |-> FALSE])
    /\ pollSeq' = pollSeq + 1
    /\ pollTimers' = Append(ClearInterval(pollTimers), IntervalMs)
    /\ pollSeen' = logged_in
    /\ UNCHANGED <<running, logged_in, current_price, priceHistory, priceTrend,
                   now, lastFromPush>>
    /\ UNCHANGED <<wsVars, layoutVars, pageVars, detailVars, histVars>>
    /\ UNCHANGED <<dropVars, signalVars, mountVars, staleLoads, providerVars>>

\* time passes
Tick(d) ==
    /\ now + d <= MaxSeconds * 1000
    /\ now' = now + d
    /\ UNCHANGED <<running, logged_in, current_price, priceHistory, priceTrend,
                   polls, pollSeq, lastFromPush>>
    /\ UNCHANGED <<wsVars, restVars, layoutVars, pageVars, detailVars, histVars>>

(* ---------------------------------------------------------------------- *)
(* useSignalsWS: the signal channel                                        *)
(* ---------------------------------------------------------------------- *)
\* the frames of /ws/signals: a signal is [id, rev]
SignalTypes == {"signal_created", "signal_updated", "heartbeat"}
SignalFrames == [type : SignalTypes, data : [id : Ids, rev : {1, 2}]]

\* the socket of the hook opens
SignalsOpen ==
    /\ signalsWs = "connecting"
    /\ signalsWs' = "open"
    /\ UNCHANGED <<signals, signalSeq, signalDropped>>
    /\ UNCHANGED <<wsVars, layoutVars, pageVars, detailVars, priceVars, histVars,
                   dropVars, pollVars, mountVars, staleLoads, providerVars>>

\* prev.map(s => s.id === data.id ? data : s)
Replaced(list, data) ==
    [i \in DOMAIN list |-> IF list[i].id = data.id THEN data ELSE list[i]]

\* ws.onmessage of the hook for a frame that parses to message
SignalsOnMessage(message) ==
    /\ Events < MaxEvents
    /\ signalsWs = "open"
    /\ signalSeq' = signalSeq + 1
    /\ signals' = CASE message.type = "signal_created" ->
                         <<message.data>> \o signals
                     [] message.type = "signal_updated" ->
                         Replaced(signals, message.data)
                     [] OTHER -> signals
    /\ UNCHANGED <<signalsWs, signalDropped>>
    /\ UNCHANGED <<wsVars, layoutVars, pageVars, detailVars, priceVars, histVars,
                   dropVars, pollVars, mountVars, staleLoads, providerVars>>

\* ws.onmessage of the hook for a frame JSON.parse rejects: the catch block
SignalsOnMalformed ==
    /\ Events < MaxEvents
    /\ signalsWs = "open"
    /\ signalDropped' = signalDropped + 1
    /\ UNCHANGED <<signalsWs, signals, signalSeq>>
    /\ UNCHANGED <<wsVars, layoutVars, pageVars, detailVars, priceVars, histVars,
                   dropVars, pollVars, mountVars, staleLoads, providerVars>>

\* cleanup of the effect of the hook: ws.close()
SignalsCleanup ==
    /\ signalsWs \in {"connecting", "open"}
    /\ signalsWs' = "closed"
    /\ UNCHANGED <<signals, signalSeq, signalDropped>>
    /\ UNCHANGED <<wsVars, layoutVars, pageVars, detailVars, priceVars, histVars,
                   dropVars, pollVars, mountVars, staleLoads, providerVars>>

(* ---------------------------------------------------------------------- *)
(* Layout: toasts                                                          *)
(* ---------------------------------------------------------------------- *)
\* showToast({type, message}); setToasts of an unmounted Layout does nothing
ShowToast(type, message) ==
    /\ toasts' = IF isMounted
                 THEN Append(toasts, [id |-> nextToastId, type |-> type,
                                      message |-> message])
                 ELSE toasts
    /\ nextToastId' = nextToastId + 1

\* removeToast(id): the close button of a toast of Layout
RemoveToast(id) ==
    /\ isMounted
    /\ \E i \in DOMAIN toasts : toasts[i].id = id
    /\ toasts' = SelectSeq(toasts, LAMBDA t : t.id # id)
    /\ UNCHANGED <<lastMessage, frameSeq, nextToastId>>
    /\ UNCHANGED <<wsVars, restVars, pageVars, detailVars, priceVars, histVars>>

(* ---------------------------------------------------------------------- *)
(* ToastProvider                                                           *)
(* ---------------------------------------------------------------------- *)
\* setTimeout(..., 4000)
ToastDuration == 4000

DigitChar == <<"0", "1", "2", "3", "4", "5", "6", "7", "8", "9">>

\* n.toString() for a natural number: its decimal digits
RECURSIVE DecimalString(_)
DecimalString(n) ==
    IF n < 10 THEN <<DigitChar[n + 1]>>
    ELSE DecimalString(n \div 10) \o <<DigitChar[(n % 10) + 1]>>

\* the ids the provider allocates while the clock runs
ProviderIds == {DecimalString(t * 1000) : t \in 0..(MaxSeconds - ToastDuration \div 1000)}

\* showToast(type, message) of the provider; the timer it sets is due within
\* the time the clock covers
ProviderShow(type, message) ==
    /\ Len(expiries) < MaxPending
    /\ now + ToastDuration <= MaxSeconds * 1000
    /\ LET id == DecimalString(now)
       IN /\ providerToasts' = Append(providerToasts,
                                      [id |-> id, type |-> type, message |-> message])
          /\ expiries' = Append(expiries, [id |-> id, due |-> now + ToastDuration])
    /\ UNCHANGED <<dropVars, signalVars, pollVars, mountVars, staleLoads>>
    /\ UNCHANGED <<wsVars, layoutVars, pageVars, detailVars, priceVars, histVars>>

\* removeToast(id) of the provider: a click on a toast of ToastContainer
ProviderRemove(id) ==
    /\ \E i \in DOMAIN providerToasts : providerToasts[i].id = id
    /\ providerToasts' = SelectSeq(providerToasts, LAMBDA t : t.id # id)
    /\ UNCHANGED expiries
    /\ UNCHANGED <<dropVars, signalVars, pollVars, mountVars, staleLoads>>
    /\ UNCHANGED <<wsVars, layoutVars, pageVars, detailVars, priceVars, histVars>>

\* a timer of showToast fires
ProviderExpire ==
    \E i \in DOMAIN expiries :
       /\ expiries[i].due <= now
       /\ providerToasts' = SelectSeq(providerToasts,
                                      LAMBDA t : t.id # expiries[i].id)
       /\ expiries' = [j \in 1..(Len(expiries) - 1) |->
                          IF j < i THEN expiries[j] ELSE expiries[j + 1]]
       /\ UNCHANGED <<dropVars, signalVars, pollVars, mountVars, staleLoads>>
       /\ UNCHANGED <<wsVars, layoutVars, pageVars, detailVars, priceVars, histVars>>

(* ---------------------------------------------------------------------- *)
(* StrategiesPage                                                          *)
(* ---------------------------------------------------------------------- *)
Statuses == {"CREATED", "RUNNING", "STOPPED"}

\* the lists fetchStrategies may return
ServerLists == [Ids -> Statuses]

\* the lists it returns while strategy 1 is being started and strategy 2 is
\* left alone
StartLists == {list \in ServerLists :
                 list[1] \in {"CREATED", "RUNNING"} /\ list[2] = "CREATED"}

\* Strategy.grid_count of each strategy
GridCount(i) == IF i = 1 THEN 10 ELSE 5

NoError == "null"
LoadFailed == "load_failed"

NoModal == [id |-> Null, action |-> "none"]

\* the ways a command fails: HTTP status (Undefined: no response) and
\* whether the body of the response carries a detail message
Failures == {e \in [status : {503, 500, Undefined}, detail : BOOLEAN] :
               e.status = Undefined => ~e.detail}

\* one failure for each branch of a catch block
SomeFailures == {e \in Failures : e.status = 503 => ~e.detail} \
                   {[status |-> 500, detail |-> FALSE]}

\* no command has failed
NoFailure == [status |-> Null, detail |-> FALSE]

\* a setter of StrategiesPage storing value where old is held: it does
\* nothing once the page has unmounted
PageSet(value, old) == IF pageMounted THEN value ELSE old

\* loadStrategies() is called; cont is the command that awaits it, if any
LoadStrategies(cont) ==
    loads' = Append(loads, [cont |-> cont])

\* the requests in flight without the i-th
WithoutLoad(i) == [j \in 1..(Len(loads) - 1) |-> IF j < i THEN loads[j] ELSE loads[j + 1]]

\* what follows `await loadStrategies()` in the executeAction that awaits
\* the i-th request in flight, if any: the success toast, then finally
AfterLoad(i) ==
    IF loads[i].cont # Null
    THEN /\ ShowToast("success", cmds[loads[i].cont].action)
         /\ actionLoading' = PageSet(Null, actionLoading)
         /\ cmds' = [cmds EXCEPT ![loads[i].cont].phase = "ok"]
    ELSE UNCHANGED <<toasts, nextToastId, actionLoading, cmds>>

\* fetchStrategies resolves with a list: setStrategies(data), setLoading(false)
LoadResolve(list) ==
    \E i \in DOMAIN loads :
       /\ loads' = WithoutLoad(i)
       /\ staleLoads' = IF i <= staleLoads THEN staleLoads - 1 ELSE i - 1
       /\ strategies' = PageSet(list, strategies)
       /\ loading' = PageSet(FALSE, loading)
       /\ AfterLoad(i)
       /\ UNCHANGED <<errorMessage, confirmModal, startingStrategyId,
                      startingProgress, msgDirty, seenSid, errSeen>>
       /\ UNCHANGED <<lastMessage, frameSeq>>
       /\ UNCHANGED <<wsVars, detailVars, priceVars, histVars>>
       /\ UNCHANGED <<dropVars, signalVars, pollVars, mountVars, providerVars>>

\* fetchStrategies rejects: setErrorMessage(...), setLoading(false)
LoadReject ==
    \E i \in DOMAIN loads :
       /\ loads' = WithoutLoad(i)
       /\ staleLoads' = IF i <= staleLoads THEN staleLoads - 1 ELSE staleLoads
       /\ errorMessage' = PageSet(LoadFailed, errorMessage)
       /\ loading' = PageSet(FALSE, loading)
       /\ AfterLoad(i)
       /\ UNCHANGED <<strategies, confirmModal, startingStrategyId,
                      startingProgress, msgDirty, seenSid, errSeen>>
       /\ UNCHANGED <<lastMessage, frameSeq>>
       /\ UNCHANGED <<wsVars, detailVars, priceVars, histVars>>
       /\ UNCHANGED <<dropVars, signalVars, pollVars, mountVars, providerVars>>

\* the effect on [errorMessage, showToast]
ErrorEffect ==
    /\ pageMounted
    /\ errorMessage # errSeen
    /\ errSeen' = errorMessage
    /\ IF errorMessage # NoError
       THEN ShowToast("error", errorMessage)
       ELSE UNCHANGED <<toasts, nextToastId>>
    /\ UNCHANGED <<strategies, loading, actionLoading, errorMessage, confirmModal,
                   startingStrategyId, startingProgress, msgDirty, seenSid,
                   cmds, loads>>
    /\ UNCHANGED <<lastMessage, frameSeq>>
    /\ UNCHANGED <<wsVars, restVars, detailVars, priceVars, histVars>>

\* the same test without the comparison of the ids
Matches_AnyId(msg, t) ==
    /\ msg.type = t
    /\ msg.hasData

\* msg.type === t && msg.data && msg.data.strategy_id === startingStrategyId
Matches(msg, t) ==
    /\ msg.type = t
    /\ msg.hasData
    /\ msg.sid = startingStrategyId

\* the effect on [botStatus.lastMessage, startingStrategyId, ...] runs when
\* one of the two changed
EffectDue == msgDirty \/ startingStrategyId # seenSid

StartupEffect ==
    /\ pageMounted
    /\ EffectDue
    /\ msgDirty' = FALSE
    /\ seenSid' = startingStrategyId
    /\ IF lastMessage = NoMessage
       THEN UNCHANGED <<startingStrategyId, startingProgress, loads,
                        toasts, nextToastId>>
       ELSE /\ IF Matches(lastMessage, "strategy_started")
               THEN /\ startingStrategyId' = Null
                    /\ startingProgress' = [current |-> 0, total |-> 0]
                    /\ LoadStrategies(Null)
                    /\ ShowToast("success", "strategy_started")
               ELSE /\ startingProgress' =
                          IF Matches(lastMessage, "order_created")
                          THEN [startingProgress EXCEPT !.current = @ + 1]
                          ELSE startingProgress
                    /\ UNCHANGED <<startingStrategyId, loads,
                                   toasts, nextToastId>>
    /\ UNCHANGED <<strategies, loading, actionLoading, errorMessage, confirmModal,
                   errSeen, cmds>>
    /\ UNCHANGED <<lastMessage, frameSeq>>
    /\ UNCHANGED <<wsVars, restVars, detailVars, priceVars, histVars>>

\* executeAction up to its first await: the command is sent
ExecuteAction_NoPending(id, action) ==
    /\ Events < MaxEvents
    /\ Len(cmds) < MaxPending
    /\ UNCHANGED actionLoading
    /\ errorMessage' = NoError
    /\ cmds' = Append(cmds, [id |-> id, action |-> action, phase |-> "sent"])

ExecuteAction(id, action) ==
    /\ Events < MaxEvents
    /\ Len(cmds) < MaxPending
    /\ actionLoading' = id
    /\ errorMessage' = NoError
    /\ cmds' = Append(cmds, [id |-> id, action |-> action, phase |-> "sent"])

\* the buttons of a strategy card: which action is offered, and enabled
Offered(id, action) ==
    /\ pageMounted
    /\ ~loading
    /\ confirmModal = NoModal
    /\ actionLoading # id
    /\ \/ action = "start" /\ strategies[id] = "CREATED" /\ startingStrategyId # id
       \/ action = "stop" /\ strategies[id] = "RUNNING"
       \/ action = "delete" /\ strategies[id] = "STOPPED"

\* handleAction(id, action)
HandleAction(id, action) ==
    /\ Offered(id, action)
    /\ IF action \in {"delete", "stop"}
       THEN /\ confirmModal' = [id |-> id, action |-> action]
            /\ UNCHANGED <<actionLoading, errorMessage, cmds, startingStrategyId,
                           startingProgress, histVars>>
       ELSE /\ IF strategies[id] # "ABSENT"
               THEN /\ startingStrategyId' = id
                    /\ startingProgress' = [current |-> 0, total |-> GridCount(id)]
                    /\ matched' = 0
                    /\ staleAtStart' = (\E t \in {"order_created", "strategy_started"} :
                                           /\ lastMessage.type = t
                                           /\ lastMessage.hasData
                                           /\ lastMessage.sid = id)
                    /\ startedSeen' = Null
                    /\ UNCHANGED failure
               ELSE UNCHANGED <<startingStrategyId, startingProgress, histVars>>
            /\ ExecuteAction(id, action)
            /\ UNCHANGED confirmModal
    /\ UNCHANGED <<strategies, loading, msgDirty, seenSid, errSeen, loads>>
    /\ UNCHANGED <<wsVars, restVars, layoutVars, detailVars, priceVars>>

\* the confirm button sending the command twice
ConfirmOk_Twice ==
    /\ pageMounted
    /\ confirmModal # NoModal
    /\ Events + 1 < MaxEvents
    /\ Len(cmds) + 1 < MaxPending
    /\ actionLoading' = confirmModal.id
    /\ errorMessage' = NoError
    /\ cmds' = cmds \o << [id |-> confirmModal.id, action |-> confirmModal.action,
                           phase |-> "sent"],
                          [id |-> confirmModal.id, action |-> confirmModal.action,
                           phase |-> "sent"] >>
    /\ confirmModal' = NoModal
    /\ UNCHANGED <<strategies, loading, startingStrategyId, startingProgress,
                   msgDirty, seenSid, errSeen, loads>>
    /\ UNCHANGED <<wsVars, restVars, layoutVars, detailVars, priceVars, histVars>>

\* the confirm button of the modal: onConfirm(), setConfirmModal(null)
ConfirmOk ==
    /\ pageMounted
    /\ confirmModal # NoModal
    /\ ExecuteAction(confirmModal.id, confirmModal.action)
    /\ confirmModal' = NoModal
    /\ UNCHANGED <<strategies, loading, startingStrategyId, startingProgress,
                   msgDirty, seenSid, errSeen, loads>>
    /\ UNCHANGED <<wsVars, restVars, layoutVars, detailVars, priceVars, histVars>>

\* the cancel button of the modal
ConfirmCancel ==
    /\ pageMounted
    /\ confirmModal # NoModal
    /\ confirmModal' = NoModal
    /\ UNCHANGED <<strategies, loading, actionLoading, errorMessage,
                   startingStrategyId, startingProgress, msgDirty, seenSid,
                   errSeen, cmds, loads>>
    /\ UNCHANGED <<wsVars, restVars, layoutVars, detailVars, priceVars, histVars>>

\* the command resolves: start falls through to finally; stop and delete
\* await loadStrategies()
CmdSuccess ==
    \E r \in DOMAIN cmds :
       /\ cmds[r].phase = "sent"
       /\ IF cmds[r].action = "start"
          THEN /\ cmds' = [cmds EXCEPT ![r].phase = "ok"]
               /\ actionLoading' = PageSet(Null, actionLoading)
               /\ UNCHANGED <<loads>>
          ELSE /\ cmds' = [cmds EXCEPT ![r].phase = "reloading"]
               /\ LoadStrategies(r)
               /\ UNCHANGED actionLoading
       /\ UNCHANGED <<strategies, loading, errorMessage, confirmModal,
                      startingStrategyId, startingProgress, msgDirty, seenSid,
                      errSeen>>
       /\ UNCHANGED <<wsVars, restVars, layoutVars, detailVars, priceVars, histVars>>

\* the catch block without the reset of the startup progress
CmdFail_KeepsProgress(e) ==
    \E r \in DOMAIN cmds :
       /\ cmds[r].phase = "sent"
       /\ cmds' = [cmds EXCEPT ![r].phase = "failed"]
       /\ UNCHANGED startingStrategyId
       /\ IF e.status = 503
          THEN ShowToast("warning", "busy")
          ELSE ShowToast("error", IF e.detail THEN "detail" ELSE "generic")
       /\ LoadStrategies(Null)
       /\ actionLoading' = PageSet(Null, actionLoading)
       /\ failure' = e
       /\ UNCHANGED <<strategies, loading, errorMessage, confirmModal,
                      startingProgress, msgDirty, seenSid, errSeen>>
       /\ UNCHANGED <<lastMessage, frameSeq>>
       /\ UNCHANGED <<matched, staleAtStart, startedSeen>>
       /\ UNCHANGED <<wsVars, restVars, detailVars, priceVars>>

\* the command rejects with error e: catch, then finally
CmdFail(e) ==
    \E r \in DOMAIN cmds :
       /\ cmds[r].phase = "sent"
       /\ cmds' = [cmds EXCEPT ![r].phase = "failed"]
       /\ startingStrategyId' = IF cmds[r].action = "start"
                                THEN PageSet(Null, startingStrategyId)
                                ELSE startingStrategyId
       /\ IF e.status = 503
          THEN ShowToast("warning", "busy")
          ELSE ShowToast("error", IF e.detail THEN "detail" ELSE "generic")
       /\ LoadStrategies(Null)
       /\ actionLoading' = PageSet(Null, actionLoading)
       /\ failure' = e
       /\ UNCHANGED <<strategies, loading, errorMessage, confirmModal,
                      startingProgress, msgDirty, seenSid, errSeen>>
       /\ UNCHANGED <<lastMessage, frameSeq>>
       /\ UNCHANGED <<matched, staleAtStart, startedSeen>>
       /\ UNCHANGED <<wsVars, restVars, detailVars, priceVars>>

\* the interval of the mount effect fires: loadStrategies()
ListIntervalTick ==
    /\ pageMounted
    /\ listInterval
    /\ Len(loads) < MaxPending
    /\ LoadStrategies(Null)
    /\ UNCHANGED <<strategies, loading, actionLoading, errorMessage, confirmModal,
                   startingStrategyId, startingProgress, msgDirty, seenSid,
                   errSeen, cmds>>
    /\ UNCHANGED <<wsVars, restVars, layoutVars, detailVars, priceVars, histVars>>

\* the router leaves the page: the cleanup of the mount effect
PageTeardown ==
    /\ pageMounted
    /\ pageMounted' = FALSE
    /\ listInterval' = FALSE
    /\ UNCHANGED <<dropVars, signalVars, pollVars, staleLoads, providerVars>>
    /\ UNCHANGED <<wsVars, layoutVars, pageVars, detailVars, priceVars, histVars>>

(* ---------------------------------------------------------------------- *)
(* StrategyDetailPage                                                      *)
(* ---------------------------------------------------------------------- *)
DetailStatuses == {"CREATED", "RUNNING", "PAUSED", "STOPPED"}

\* loadData() is called
LoadData ==
    detailLoads' = detailLoads + 1

\* setInterval(loadData, 3000) fires
DetailIntervalTick ==
    /\ detailInterval
    /\ detailLoads < MaxPending
    /\ LoadData
    /\ UNCHANGED <<detailStrategy, detailLoading, detailModal, detailInterval,
                   detailCmds>>
    /\ UNCHANGED <<wsVars, restVars, layoutVars, pageVars, priceVars, histVars>>

\* the three requests of loadData resolve: setStrategy(data), setLoading(false)
DetailLoadResolve(st) ==
    /\ detailLoads > 0
    /\ detailLoads' = detailLoads - 1
    /\ detailStrategy' = st
    /\ detailLoading' = FALSE
    /\ UNCHANGED <<detailModal, detailInterval, detailCmds>>
    /\ UNCHANGED <<wsVars, restVars, layoutVars, pageVars, priceVars, histVars>>

\* one of the requests of loadData rejects: setLoading(false)
DetailLoadReject ==
    /\ detailLoads > 0
    /\ detailLoads' = detailLoads - 1
    /\ detailLoading' = FALSE
    /\ UNCHANGED <<detailStrategy, detailModal, detailInterval, detailCmds>>
    /\ UNCHANGED <<wsVars, restVars, layoutVars, pageVars, priceVars, histVars>>

\* doAction() up to its await: the command is sent
DoAction(action) ==
    /\ Events < MaxEvents
    /\ Len(detailCmds) < MaxPending
    /\ detailCmds' = Append(detailCmds, [action |-> action, phase |-> "sent"])

\* the buttons of the header: which action is offered
DetailOffered(action) ==
    /\ ~detailLoading
    /\ ~detailModal.show
    /\ \/ action = "start" /\ detailStrategy \in {"CREATED", "PAUSED"}
       \/ action = "pause" /\ detailStrategy = "RUNNING"
       \/ action = "stop" /\ detailStrategy \in {"RUNNING", "PAUSED"}

\* handleAction(action) of StrategyDetailPage
DetailHandleAction(action) ==
    /\ DetailOffered(action)
    /\ detailStrategy # "NULL"
    /\ IF action = "stop"
       THEN /\ detailModal' = [show |-> TRUE, action |-> action]
            /\ UNCHANGED detailCmds
       ELSE /\ DoAction(action)
            /\ UNCHANGED detailModal
    /\ UNCHANGED <<detailStrategy, detailLoading, detailInterval, detailLoads>>
    /\ UNCHANGED <<wsVars, restVars, layoutVars, pageVars, priceVars, histVars>>

\* the confirm button of the modal: onConfirm(), then show: false
DetailConfirmOk ==
    /\ detailModal.show
    /\ DoAction(detailModal.action)
    /\ detailModal' = [detailModal EXCEPT !.show = FALSE]
    /\ UNCHANGED <<detailStrategy, detailLoading, detailInterval, detailLoads>>
    /\ UNCHANGED <<wsVars, restVars, layoutVars, pageVars, priceVars, histVars>>

\* the cancel button of the modal: show: false
DetailConfirmCancel ==
    /\ detailModal.show
    /\ detailModal' = [detailModal EXCEPT !.show = FALSE]
    /\ UNCHANGED <<detailStrategy, detailLoading, detailInterval, detailCmds,
                   detailLoads>>
    /\ UNCHANGED <<wsVars, restVars, layoutVars, pageVars, priceVars, histVars>>

\* the success path without the call of loadData()
DetailCmdSuccess_NoReload ==
    \E r \in DOMAIN detailCmds :
       /\ detailCmds[r].phase = "sent"
       /\ detailCmds' = [detailCmds EXCEPT ![r].phase = "ok"]
       /\ UNCHANGED detailLoads
       /\ ShowToast("success", detailCmds[r].action)
       /\ UNCHANGED <<detailStrategy, detailLoading, detailModal, detailInterval>>
       /\ UNCHANGED <<lastMessage, frameSeq>>
       /\ UNCHANGED <<wsVars, restVars, pageVars, priceVars, histVars>>

\* the command resolves: loadData(), then the success toast
DetailCmdSuccess ==
    \E r \in DOMAIN detailCmds :
       /\ detailCmds[r].phase = "sent"
       /\ detailCmds' = [detailCmds EXCEPT ![r].phase = "ok"]
       /\ LoadData
       /\ ShowToast("success", detailCmds[r].action)
       /\ UNCHANGED <<detailStrategy, detailLoading, detailModal, detailInterval>>
       /\ UNCHANGED <<lastMessage, frameSeq>>
       /\ UNCHANGED <<wsVars, restVars, pageVars, priceVars, histVars>>

\* the catch block with an error toast in both branches
DetailCmdFail_AlwaysError(e) ==
    \E r \in DOMAIN detailCmds :
       /\ detailCmds[r].phase = "sent"
       /\ detailCmds' = [detailCmds EXCEPT ![r].phase = "failed"]
       /\ ShowToast("error", IF e.detail THEN "detail" ELSE "generic")
       /\ failure' = e
       /\ UNCHANGED <<detailStrategy, detailLoading, detailModal, detailInterval,
                      detailLoads>>
       /\ UNCHANGED <<lastMessage, frameSeq>>
       /\ UNCHANGED <<matched, staleAtStart, startedSeen>>
       /\ UNCHANGED <<wsVars, restVars, pageVars, priceVars>>

\* the command rejects with error e: the catch block
DetailCmdFail(e) ==
    \E r \in DOMAIN detailCmds :
       /\ detailCmds[r].phase = "sent"
       /\ detailCmds' = [detailCmds EXCEPT ![r].phase = "failed"]
       /\ IF e.status = 503
          THEN ShowToast("warning", "busy")
          ELSE ShowToast("error", IF e.detail THEN "detail" ELSE "generic")
       /\ failure' = e
       /\ UNCHANGED <<detailStrategy, detailLoading, detailModal, detailInterval,
                      detailLoads>>
       /\ UNCHANGED <<lastMessage, frameSeq>>
       /\ UNCHANGED <<matched, staleAtStart, startedSeen>>
       /\ UNCHANGED <<wsVars, restVars, pageVars, priceVars>>

(* ---------------------------------------------------------------------- *)
(* Initial state: the components are mounted, connectWebSocket() has run   *)
(* ---------------------------------------------------------------------- *)
InitWs ==
    /\ isMounted = TRUE
    /\ attempts = 1
    /\ \/ /\ sockets = <<NewSocket>>
          /\ ws = 1
          /\ reconnectTimer = Undefined
          /\ timerSeq = 0
          /\ timers = {}
       \/ /\ sockets = <<>>
          /\ ws = Null
          /\ reconnectTimer = 1
          /\ timerSeq = 1
          /\ timers = {[id |-> 1, delay |-> ReconnectDelay]}

InitLayout ==
    /\ lastMessage = NoMessage
    /\ frameSeq = 0
    /\ toasts = <<>>
    /\ nextToastId = 1

\* StrategiesPage after mount: its effects have run once, the first
\* loadStrategies() is in flight
InitPage ==
    /\ strategies = [i \in Ids |-> "ABSENT"]
    /\ loading = TRUE
    /\ actionLoading = Null
    /\ errorMessage = NoError
    /\ confirmModal = NoModal
    /\ startingStrategyId = Null
    /\ startingProgress = [current |-> 0, total |-> 0]
    /\ msgDirty = FALSE
    /\ seenSid = Null
    /\ errSeen = NoError
    /\ cmds = <<>>
    /\ loads = <<[cont |-> Null]>>
    /\ pageMounted = TRUE
    /\ listInterval = TRUE
    /\ staleLoads = 0

\* no StrategiesPage is mounted
NoListPage ==
    /\ strategies = [i \in Ids |-> "ABSENT"]
    /\ loading = TRUE
    /\ actionLoading = Null
    /\ errorMessage = NoError
    /\ confirmModal = NoModal
    /\ startingStrategyId = Null
    /\ startingProgress = [current |-> 0, total |-> 0]
    /\ msgDirty = FALSE
    /\ seenSid = Null
    /\ errSeen = NoError
    /\ cmds = <<>>
    /\ loads = <<>>
    /\ pageMounted = FALSE
    /\ listInterval = FALSE
    /\ staleLoads = 0

\* StrategyDetailPage after mount: the first loadData() is in flight and the
\* interval is set
InitDetail ==
    /\ detailStrategy = "NULL"
    /\ detailLoading = TRUE
    /\ detailModal = [show |-> FALSE, action |-> "none"]
    /\ detailInterval = TRUE
    /\ detailCmds = <<>>
    /\ detailLoads = 1

\* no StrategyDetailPage is mounted
NoDetailPage ==
    /\ detailStrategy = "NULL"
    /\ detailLoading = TRUE
    /\ detailModal = [show |-> FALSE, action |-> "none"]
    /\ detailInterval = FALSE
    /\ detailCmds = <<>>
    /\ detailLoads = 0

\* Layout after mount: the polling effect has called fetchStatus() once
InitPrice ==
    /\ running = JsFalse
    /\ logged_in = JsFalse
    /\ current_price = NullPrice
    /\ priceHistory = <<>>
    /\ priceTrend = "null"
    /\ now = 0
    /\ polls = <<[stale |-> FALSE]>>
    /\ pollSeq = 0

InitHist ==
    /\ matched = 0
    /\ staleAtStart = FALSE
    /\ startedSeen = Null
    /\ failure = NoFailure
    /\ lastFromPush = FALSE

\* no frame was dropped yet
InitDrop ==
    /\ dropped = 0
    /\ afterDrop = FALSE

\* useSignalsWS after mount: its effect has constructed the WebSocket
InitSignals ==
    /\ signalsWs = "connecting"
    /\ signals = <<>>
    /\ signalSeq = 0
    /\ signalDropped = 0

\* the polling effect has run once: its interval is set
InitPoll ==
    /\ pollTimers = <<3000>>
    /\ pollSeen = JsFalse

\* ToastProvider after mount
InitProvider ==
    /\ providerToasts = <<>>
    /\ expiries = <<>>

InitRest == InitDrop /\ InitSignals /\ InitPoll /\ InitProvider

Init ==
    /\ InitWs /\ InitLayout /\ InitPage /\ NoDetailPage /\ InitPrice /\ InitHist
    /\ InitRest

(* ---------------------------------------------------------------------- *)
(* The push channel on its own                                             *)
(* ---------------------------------------------------------------------- *)
NextWs ==
    \/ TimerFire
    \/ WsOpen
    \/ NetClose
    \/ NetError
    \/ CloseDone
    \/ OnError
    \/ OnClose
    \/ \E f \in WsFrames : OnMessage(f)
    \/ Teardown

SpecWs == Init /\ [][NextWs]_vars

\* the event loop dispatches every queued event and every due timer, and a
\* closing handshake ends
LiveSpecWs ==
    /\ SpecWs
    /\ WF_vars(TimerFire)
    /\ WF_vars(OnError)
    /\ WF_vars(OnClose)
    /\ WF_vars(CloseDone)

(* ---------------------------------------------------------------------- *)
(* The strategy list page on an undisturbed push channel                   *)
(* ---------------------------------------------------------------------- *)
\* a busy server, and a refusal that carries a detail message
PageFailures == {e \in SomeFailures : e.status # Undefined}

NextPage ==
    \/ WsOpen
    \/ \E f \in StartFrames : OnMessage(f)
    \/ StartupEffect
    \/ \E list \in StartLists : LoadResolve(list)
    \/ \E id \in Ids : HandleAction(id, "start")
    \/ CmdSuccess
    \/ \E e \in PageFailures : CmdFail(e)

SpecPage == Init /\ [][NextPage]_vars

(* ---------------------------------------------------------------------- *)
(* The lifecycle commands: the router shows the strategy list page or the  *)
(* detail page of one strategy                                             *)
(* ---------------------------------------------------------------------- *)
\* the lists fetchStrategies returns while strategy 1 is stopped and deleted
\* and strategy 2 is running
CmdLists == {list \in ServerLists :
               list[1] \in {"RUNNING", "STOPPED"} /\ list[2] = "RUNNING"}

\* the statuses fetchStrategy returns while the strategy is paused, restarted
\* and stopped
CmdStatuses == {"RUNNING", "PAUSED"}

\* the first connection attempt of the push channel is pending
InitCmd ==
    /\ InitWs /\ ws = 1 /\ InitLayout /\ InitPrice /\ InitHist /\ InitRest
    /\ \/ InitPage /\ NoDetailPage
       \/ NoListPage /\ InitDetail

NextCmd ==
    \/ \E list \in CmdLists : LoadResolve(list)
    \/ LoadReject
    \/ ErrorEffect
    \/ \E id \in Ids, action \in {"start", "stop", "delete"} : HandleAction(id, action)
    \/ ConfirmOk
    \/ ConfirmCancel
    \/ CmdSuccess
    \/ \E e \in Failures : CmdFail(e)
    \/ DetailIntervalTick
    \/ \E st \in CmdStatuses : DetailLoadResolve(st)
    \/ DetailLoadReject
    \/ \E action \in {"start", "pause", "stop"} : DetailHandleAction(action)
    \/ DetailConfirmOk
    \/ DetailConfirmCancel
    \/ DetailCmdSuccess
    \/ \E e \in Failures : DetailCmdFail(e)

SpecCmd == InitCmd /\ [][NextCmd]_vars

(* ---------------------------------------------------------------------- *)
(* The price tracker: polled snapshots and pushed prices                   *)
(* ---------------------------------------------------------------------- *)
\* the prices a frame carries: numbers, zero, a numeral with a thousands
\* separator, a literal that overflows
PushPrices == {JsNumber(102), JsNumber(99), JsNumber(0),
               JsString(<<"1", ",", "0", "0">>), JsInfinity}

\* the prices a snapshot carries: a number, text, null, none
PollPrices == {JsNumber(100), JsString(<<"x">>), JsNull, JsUndefined}

PriceFrames == {PriceFrame(TRUE, p) : p \in PushPrices}
                  \cup {PriceFrame(FALSE, JsUndefined)}

\* the snapshots /bot/status returns while the bot is idle and nobody is
\* logged in
PriceSnapshots == {[running |-> JsFalse, logged_in |-> JsFalse, current_price |-> p] :
                     p \in PollPrices}

\* how far the clock advances between two events, in ms
Steps == {1000, 4000}

NextPrice ==
    \/ WsOpen
    \/ \E f \in PriceFrames : OnMessage(f)
    \/ PollTick
    \/ \E data \in PriceSnapshots : PollResolve(data)
    \/ PollReject
    \/ \E d \in Steps : Tick(d)

\* Layout is mounted with the strategy list page; the first connection
\* attempt of the push channel is pending
InitTracker ==
    /\ InitWs /\ ws = 1 /\ InitLayout /\ InitPrice /\ InitHist /\ InitRest
    /\ InitPage /\ NoDetailPage

SpecPrice == InitTracker /\ [][NextPrice]_vars

(* ---------------------------------------------------------------------- *)
(* The two channels delivering frames that are no JSON                     *)
(* ---------------------------------------------------------------------- *)
DropFrames == StartFrames \cup {PriceFrame(TRUE, JsNumber(102))}

NextDrop ==
    \/ WsOpen
    \/ \E f \in DropFrames : OnMessage(f)
    \/ OnMalformed
    \/ StartupEffect
    \/ \E list \in StartLists : LoadResolve(list)
    \/ \E id \in Ids : HandleAction(id, "start")
    \/ SignalsOpen
    \/ \E message \in SignalFrames : SignalsOnMessage(message)
    \/ SignalsOnMalformed
    \/ SignalsCleanup

\* Layout is mounted with the strategy list page and a component using
\* useSignalsWS
InitChannels ==
    /\ InitWs /\ ws = 1 /\ InitLayout /\ InitPrice /\ InitHist /\ InitRest
    /\ InitPage /\ NoDetailPage

SpecDrop == InitChannels /\ [][NextDrop]_vars

(* ---------------------------------------------------------------------- *)
(* The polling of /bot/status                                              *)
(* ---------------------------------------------------------------------- *)
\* the snapshots /bot/status returns: each flag a boolean or missing
PollSnapshots == [running : {JsTrue, JsUndefined},
                  logged_in : {JsTrue, JsFalse, JsUndefined},
                  current_price : {JsNumber(100), JsNull}]

NextPoll ==
    \/ WsOpen
    \/ OnMessage(PriceFrame(TRUE, JsNumber(102)))
    \/ PollEffect
    \/ PollTick
    \/ \E data \in PollSnapshots : PollResolve(data)
    \/ PollReject
    \/ Teardown

\* Layout is mounted with the strategy list page
InitPolling ==
    /\ InitWs /\ ws = 1 /\ InitLayout /\ InitPrice /\ InitHist /\ InitRest
    /\ InitPage /\ NoDetailPage

SpecPoll == InitPolling /\ [][NextPoll]_vars

(* ---------------------------------------------------------------------- *)
(* The strategy list page reloading its list, and the router leaving it    *)
(* ---------------------------------------------------------------------- *)
NextList ==
    \/ \E list \in CmdLists : LoadResolve(list)
    \/ ListIntervalTick
    \/ \E id \in Ids : HandleAction(id, "stop")
    \/ ConfirmOk
    \/ CmdSuccess
    \/ CmdFail([status |-> 500, detail |-> TRUE])
    \/ PageTeardown

\* Layout is mounted with the strategy list page
InitList ==
    /\ InitWs /\ ws = 1 /\ InitLayout /\ InitPrice /\ InitHist /\ InitRest
    /\ InitPage /\ NoDetailPage

SpecList == InitList /\ [][NextList]_vars

(* ---------------------------------------------------------------------- *)
(* The two toast queues                                                    *)
(* ---------------------------------------------------------------------- *)
\* the ids Layout allocates within the bound on the events
ToastIds == 1..MaxEvents

\* the list fetchStrategies returns while no strategy was started yet
IdleList == [i \in Ids |-> "CREATED"]

\* a command is refused early enough for the duration of a toast to pass
\* while the clock runs
EarlyCmdFail ==
    /\ now + ToastDuration <= MaxSeconds * 1000
    /\ CmdFail([status |-> 503, detail |-> FALSE])

NextToast ==
    \/ LoadResolve(IdleList)
    \/ \E id \in Ids : HandleAction(id, "start")
    \/ EarlyCmdFail
    \/ \E id \in ToastIds : RemoveToast(id)
    \/ ProviderShow("info", "saved")
    \/ \E id \in ProviderIds : ProviderRemove(id)
    \/ ProviderExpire
    \/ \E d \in Steps : Tick(d)

\* ToastProvider, Layout and the strategy list page are mounted
InitToast ==
    /\ InitWs /\ ws = 1 /\ InitLayout /\ InitPrice /\ InitHist /\ InitRest
    /\ InitPage /\ NoDetailPage

SpecToast == InitToast /\ [][NextToast]_vars

\* time passes and the event loop runs every timer that is due; nobody has
\* to click
LiveSpecToast ==
    /\ SpecToast
    /\ WF_vars(\E d \in Steps : Tick(d))
    /\ WF_vars(ProviderExpire)

(* ---------------------------------------------------------------------- *)
(* Properties of the push channel                                          *)
(* ---------------------------------------------------------------------- *)
\* the channel is down: mounted, and no socket is connecting or open
Disconnected == isMounted /\ LiveSockets = {}

\* C1: while the component is mounted, every closure of the channel (remote
\* close, error leading to close, constructor failure) is followed by a new
\* connection attempt, for every number of earlier attempts; the attempt is
\* made by a timer of 3000 ms.
C1_ReconnectAfterEveryClose ==
    /\ \A n \in 1..MaxAttempts :
          (Disconnected /\ attempts = n) ~> (attempts > n \/ ~isMounted)
    /\ [](\A t \in timers : t.delay = 3000)
    /\ [][attempts' > attempts => \E t \in timers : t \notin timers']_vars

\* a second closure has been answered by a third connection attempt
C1_Witness ==
    /\ isMounted
    /\ attempts = 3
    /\ Len(sockets) >= 2
    /\ sockets[1].state = "closed"
    /\ sockets[2].state = "closed"

\* C2: a close dispatched while mounted schedules exactly one reconnect
\* timer; at most one timer is pending, at most one socket is connecting or
\* open, and never a pending timer together with a live socket.
C2_OneTimerOneConnection ==
    /\ [](/\ Cardinality(timers) <= 1
          /\ Cardinality(LiveSockets) <= 1
          /\ ~(timers # {} /\ LiveSockets # {}))
    /\ [][(isMounted /\ \E s \in DOMAIN sockets :
                           sockets[s].evClose /\ ~sockets'[s].evClose)
          => (timers \subseteq timers' /\ Cardinality(timers') = Cardinality(timers) + 1)
       ]_vars

\* the close event that followed an error event has been dispatched and its
\* one reconnect timer is pending
C2_Witness ==
    /\ isMounted
    /\ Cardinality(timers) = 1
    /\ \E s \in DOMAIN sockets :
          /\ sockets[s].state = "closed"
          /\ ~sockets[s].evClose
          /\ ~sockets[s].evError
    /\ timerSeq >= 1
    /\ Len(sockets) = attempts

\* C3: after teardown no reconnect timer is pending, no socket is connecting
\* or open, and no further connection attempt is made, whatever events were
\* queued at teardown.
C3_TeardownIsFinal ==
    /\ [](~isMounted => (timers = {} /\ LiveSockets = {}))
    /\ [][~isMounted => (attempts' = attempts /\ Len(sockets') = Len(sockets)
                         /\ timers' = timers)]_vars

\* torn down while a reconnect timer was pending (more timers were set than
\* fired), and that timer is gone
C3_Witness ==
    /\ ~isMounted
    /\ timers = {}
    /\ timerSeq > attempts - 1

(* ---------------------------------------------------------------------- *)
(* Properties of the startup progress                                      *)
(* ---------------------------------------------------------------------- *)
\* this step is a run of the startup-progress effect
EffectStep == (msgDirty /\ ~msgDirty') \/ seenSid' # seenSid

\* lastMessage is an order_created or strategy_started frame
StartFrameHeld == lastMessage.type \in {"order_created", "strategy_started"}

\* C4: with no start pending, the effect ignores every order_created or
\* strategy_started frame, whatever its strategy id (null and missing
\* included): progress, pending flag, reloads and toasts stay as they are.
C4_IgnoredWhenNothingPending ==
    [][(EffectStep /\ startingStrategyId = Null /\ StartFrameHeld)
       => UNCHANGED <<startingStrategyId, startingProgress, actionLoading,
                      loads, toasts>>]_vars

\* C5: while a start is pending for Y, the effect leaves progress, reloads
\* and toasts unchanged on a frame whose strategy id is not Y.
C5_OtherIdIgnored ==
    [][(/\ EffectStep
        /\ startingStrategyId \in Ids
        /\ StartFrameHeld
        /\ lastMessage.sid # startingStrategyId)
       => UNCHANGED <<startingStrategyId, startingProgress, actionLoading,
                      loads, toasts, nextToastId, strategies>>]_vars

\* the effect has run on a frame for the other strategy while a start was
\* pending, and the progress is as the start left it
C5_Witness ==
    /\ startingStrategyId \in Ids
    /\ ~EffectDue
    /\ StartFrameHeld
    /\ lastMessage.hasData
    /\ lastMessage.sid \in Ids \ {startingStrategyId}
    /\ startingProgress = [current |-> 0, total |-> GridCount(startingStrategyId)]

\* C6: once the effect has caught up, current equals the number of matching
\* order_created frames received since the start was issued, and total is
\* the grid count (a frame retained from before the start set aside).
C6_EveryFrameCounted ==
    (startingStrategyId \in Ids /\ ~EffectDue /\ ~staleAtStart)
    => /\ startingProgress.current = matched
       /\ startingProgress.total = GridCount(startingStrategyId)

\* C7: a step that makes id the starting strategy sets the progress to
\* {0, gridCount}, marks id action-pending and sends one start command for
\* id, and resolves no command.
C7_StartRecordsProgress ==
    [][\A id \in Ids :
          (startingStrategyId' = id /\ startingStrategyId # id)
          => /\ startingProgress' = [current |-> 0, total |-> GridCount(id)]
             /\ actionLoading' = id
             /\ cmds' = Append(cmds, [id |-> id, action |-> "start",
                                      phase |-> "sent"])
       ]_vars

\* a start has been issued and nothing has answered it yet
C7_Witness ==
    /\ startingStrategyId \in Ids
    /\ actionLoading = startingStrategyId
    /\ startingProgress = [current |-> 0, total |-> GridCount(startingStrategyId)]
    /\ Len(cmds) = 1
    /\ cmds[1] = [id |-> startingStrategyId, action |-> "start", phase |-> "sent"]

\* C8: once the effect has caught up after a strategy_started frame for the
\* pending id, the progress of that id is cleared.
C8_StartedClearsProgress ==
    (startedSeen # Null /\ ~EffectDue) => startingStrategyId # startedSeen

\* C9: the step in which a start command for id fails leaves no progress
\* for id, clears the action-pending flag and issues a reload.
C9_FailedStartClears ==
    [][\A r \in DOMAIN cmds :
          (/\ cmds[r].action = "start"
           /\ cmds[r].phase = "sent"
           /\ cmds'[r].phase = "failed")
          => /\ startingStrategyId' # cmds[r].id
             /\ actionLoading' # cmds[r].id
             /\ loads' = Append(loads, [cont |-> Null])
       ]_vars

\* a start that recorded its progress has failed: the id is cleared, the
\* counters are as the start left them, the reload is in flight
C9_Witness ==
    \E r \in DOMAIN cmds :
       /\ cmds[r].action = "start"
       /\ cmds[r].phase = "failed"
       /\ startingStrategyId = Null
       /\ actionLoading = Null
       /\ startingProgress = [current |-> 0, total |-> GridCount(cmds[r].id)]
       /\ Len(loads) >= 1

\* C10: the progress of X ends only when the effect handles a
\* strategy_started frame for X or a start command for X fails.
C10_ProgressEndsOnlyByOwnEvent ==
    [][\A x \in Ids :
          (startingStrategyId = x /\ startingStrategyId' # x)
          => \/ /\ EffectStep
                /\ lastMessage = Frame("strategy_started", TRUE, x)
             \/ \E r \in DOMAIN cmds :
                   /\ cmds[r].id = x
                   /\ cmds[r].action = "start"
                   /\ cmds[r].phase = "sent"
                   /\ cmds'[r].phase = "failed"
       ]_vars

(* ---------------------------------------------------------------------- *)
(* Properties of the lifecycle commands                                    *)
(* ---------------------------------------------------------------------- *)
\* executeAction of command r has not reached its finally block
InFlight(r) == cmds[r].phase \in {"sent", "reloading"}

\* command r of the list page fails in this step
ListFails(r) == cmds[r].phase = "sent" /\ cmds'[r].phase = "failed"

\* command r of the detail page fails in this step
DetailFails(r) == detailCmds[r].phase = "sent" /\ detailCmds'[r].phase = "failed"

\* the toasts shown in this step
NewToasts == {toasts'[i] : i \in DOMAIN toasts' \ DOMAIN toasts}

\* C11: while a lifecycle command for a strategy is in flight, the strategy
\* is marked action-pending (so its buttons are disabled), whatever is
\* issued or resolves for another strategy in between.
C11_PendingUntilResolved ==
    \A r \in DOMAIN cmds : InFlight(r) => actionLoading = cmds[r].id

\* C12: the step in which a lifecycle command fails, on the strategy list
\* or on the strategy detail page, issues a reload and sets no status
\* locally.
C12_FailureReloads ==
    [][/\ \A r \in DOMAIN cmds :
             ListFails(r) => /\ loads' = Append(loads, [cont |-> Null])
                             /\ strategies' = strategies
       /\ \A r \in DOMAIN detailCmds :
             DetailFails(r) => /\ detailLoads' = detailLoads + 1
                               /\ detailStrategy' = detailStrategy
       ]_vars

\* C13: the step in which a lifecycle command fails shows exactly one
\* toast: a warning iff the response status is 503, an error otherwise, the
\* error carrying the detail of the response when there is one and the
\* generic text when there is none.
C13_OneClassifiedToast ==
    [][((\E r \in DOMAIN cmds : ListFails(r))
           \/ (\E r \in DOMAIN detailCmds : DetailFails(r)))
       => /\ Len(toasts') = Len(toasts) + 1
          /\ SubSeq(toasts', 1, Len(toasts)) = toasts
          /\ LET t == toasts'[Len(toasts')]
             IN /\ t.type \in {"warning", "error"}
                /\ t.type = "warning" <=> failure'.status = 503
                /\ t.type = "error" =>
                      t.message = IF failure'.detail THEN "detail" ELSE "generic"
       ]_vars

\* commands have failed with status 503 and a detail in the body, and
\* the last toast is the warning
C13_Witness ==
    /\ failure = [status |-> 503, detail |-> TRUE]
    /\ toasts # <<>>
    /\ toasts[Len(toasts)].type = "warning"
    /\ \/ \E r \in DOMAIN cmds : cmds[r].phase = "failed"
       \/ \E r \in DOMAIN detailCmds : detailCmds[r].phase = "failed"

\* C14: a pause, stop or delete command that succeeds issues a reload and
\* shows exactly one success toast; a success toast is shown only when a
\* command completes, and none in the step in which a command fails.
C14_SuccessReloadsAndToasts ==
    [][/\ \A r \in DOMAIN cmds :
             /\ (cmds[r].phase = "sent" /\ cmds'[r].phase = "reloading")
                   => loads' = Append(loads, [cont |-> r])
             /\ (cmds[r].phase = "reloading" /\ cmds'[r].phase # "reloading")
                   => /\ cmds'[r].phase = "ok"
                      /\ toasts' = Append(toasts, [id |-> nextToastId,
                                                   type |-> "success",
                                                   message |-> cmds[r].action])
             /\ (cmds[r].action # "start" /\ cmds[r].phase = "sent")
                   => cmds'[r].phase \in {"sent", "reloading", "failed"}
       /\ \A r \in DOMAIN detailCmds :
             (detailCmds[r].phase = "sent" /\ detailCmds'[r].phase = "ok")
                => /\ detailLoads' = detailLoads + 1
                   /\ toasts' = Append(toasts, [id |-> nextToastId,
                                                type |-> "success",
                                                message |-> detailCmds[r].action])
       /\ (\E t \in NewToasts : t.type = "success")
             => \/ \E r \in DOMAIN cmds :
                      cmds[r].phase = "reloading" /\ cmds'[r].phase = "ok"
                \/ \E r \in DOMAIN detailCmds :
                      detailCmds[r].phase = "sent" /\ detailCmds'[r].phase = "ok"
       ]_vars

\* a stop or delete of the list page, or a pause or stop of the detail page,
\* has completed and its success toast is shown
C14_Witness ==
    \/ \E r \in DOMAIN cmds, i \in DOMAIN toasts :
          /\ cmds[r].action \in {"stop", "delete"}
          /\ cmds[r].phase = "ok"
          /\ toasts[i].type = "success"
          /\ toasts[i].message = cmds[r].action
    \/ \E r \in DOMAIN detailCmds, i \in DOMAIN toasts :
          /\ detailCmds[r].action \in {"pause", "stop"}
          /\ detailCmds[r].phase = "ok"
          /\ toasts[i].type = "success"
          /\ toasts[i].message = detailCmds[r].action

\* C15: asking for a delete opens the confirm modal and sends nothing;
\* a delete command is sent only in the step that closes the modal opened
\* for it, for the id the modal was opened for, and once; closing the modal
\* otherwise sends nothing.
C15_DeleteOnlyWhenConfirmed ==
    [][/\ (confirmModal = NoModal /\ confirmModal'.action = "delete")
             => cmds' = cmds
       /\ (confirmModal.action = "delete" /\ confirmModal' # confirmModal)
             => /\ confirmModal' = NoModal
                /\ \/ cmds' = cmds
                   \/ cmds' = Append(cmds, [id |-> confirmModal.id,
                                            action |-> "delete",
                                            phase |-> "sent"])
       /\ \A k \in DOMAIN cmds' \ DOMAIN cmds :
             cmds'[k].action = "delete"
                => confirmModal.action = "delete" /\ confirmModal' = NoModal
       ]_vars

\* a delete of strategy 1 was asked for, confirmed and sent once
C15_Witness ==
    /\ confirmModal = NoModal
    /\ Len(cmds) = 1
    /\ cmds[1].action = "delete"
    /\ cmds[1].id = 1

(* ---------------------------------------------------------------------- *)
(* Properties of the price tracker                                         *)
(* ---------------------------------------------------------------------- *)
\* the state of the price tracker: the price, the sample buffer, the trend
tracker == <<current_price, priceHistory, priceTrend>>

\* the newest sample of the buffer
Newest == priceHistory[Len(priceHistory)]

\* C16: once current_price holds a number it never returns to null; a frame
\* whose price does not normalize to a finite number changes neither the
\* price nor the buffer nor the trend, and a step that settles a fetch and
\* changes one of them is neither a failed fetch nor the processing of a
\* snapshot whose price does not normalize to a finite number.
C16_PriceNeverRegresses ==
    [][/\ current_price # NullPrice => current_price' # NullPrice
       /\ (frameSeq' # frameSeq /\ NormalizePrice(lastMessage'.price) = NullPrice)
             => UNCHANGED tracker
       /\ (Len(polls') < Len(polls) /\ tracker' # tracker)
             => /\ ~PollReject
                /\ \A data \in PriceSnapshots :
                      NormalizePrice(data.current_price) = NullPrice
                         => ~PollResolve(data)
       ]_vars

\* pushed prices were accepted, no snapshot has been processed, and the
\* last frame carried a price that is not finite: the price is still held
C16_Witness ==
    /\ lastMessage = PriceFrame(TRUE, JsInfinity)
    /\ current_price # NullPrice
    /\ lastFromPush
    /\ pollSeq = 0
    /\ Len(polls) = 1

\* C17: a poll response is not applied when a pushed price was accepted
\* after the request was issued and is the newest sample of the window.
C17_PollNeverOverridesNewerPush ==
    [][\A i \in DOMAIN polls :
          (/\ polls' = WithoutPoll(i)
           /\ polls[i].stale
           /\ lastFromPush
           /\ now - Newest.ts <= Window)
          => UNCHANGED tracker
       ]_vars

\* C18: whenever the buffer holds a sample, the price is the newest sample,
\* the oldest sample is at most 5000 ms older, and the trend is up iff the
\* newest price is above the oldest, down iff below, flat iff equal.
C18_TrendAgainstOldest ==
    priceHistory # <<>> =>
       LET latest == Newest.price
           oldest == priceHistory[1].price
       IN /\ current_price = latest
          /\ Newest.ts - priceHistory[1].ts <= Window
          /\ priceTrend = "up" <=> latest > oldest
          /\ priceTrend = "down" <=> latest < oldest
          /\ priceTrend = "flat" <=> latest = oldest

\* the prices 100, 102, 99 were accepted one second apart: the trend is down
C18_Witness ==
    /\ priceHistory = << [price |-> 100, ts |-> 0], [price |-> 102, ts |-> 1000],
                         [price |-> 99, ts |-> 2000] >>
    /\ priceTrend = "down"

\* C19: an accepted sample that is alone in the buffer after pruning leaves
\* the trend as it was.
C19_SingleSampleKeepsTrend ==
    [][(priceHistory' # priceHistory /\ Len(priceHistory') = 1)
       => priceTrend' = priceTrend]_vars

\* C20: an accepted sample leaves in the buffer the samples held before
\* that are at most 5000 ms old, in their order, followed by the new one;
\* the buffer is ordered by time and its oldest sample is at most 5000 ms
\* old.
C20_BufferIsPrunedWindow ==
    [][priceHistory' # priceHistory
       => /\ priceHistory' =
                SelectSeq(priceHistory, LAMBDA p : now - p.ts <= Window)
                   \o << [price |-> current_price', ts |-> now] >>
          /\ \A i \in 1..(Len(priceHistory') - 1) :
                priceHistory'[i].ts <= priceHistory'[i + 1].ts
          /\ now - priceHistory'[1].ts <= Window
       ]_vars

\* a sample was accepted exactly 5000 ms after the oldest one, which is kept
C20_Witness ==
    /\ Len(priceHistory) >= 2
    /\ Newest.ts - priceHistory[1].ts = Window

(* ---------------------------------------------------------------------- *)
(* Properties of frames that are no JSON                                   *)
(* ---------------------------------------------------------------------- *)
\* C21: a frame that fails to parse as JSON is dropped. In Layout it leaves
\* BotStatus with lastMessage, the sample buffer, the trend, the startup
\* progress and the toasts as they were and the connection as it was; in
\* useSignalsWS it leaves the signal list and the connection as they were;
\* and the frame that parses next is taken as any other.
C21_MalformedFrameDropped ==
    [][/\ dropped' # dropped
          => UNCHANGED <<lastMessage, running, logged_in, current_price,
                         priceHistory, priceTrend, startingStrategyId,
                         startingProgress, toasts, signals, sockets, ws,
                         signalsWs>>
       /\ signalDropped' # signalDropped
          => UNCHANGED <<signals, signalsWs, lastMessage, running, logged_in,
                         current_price, priceHistory, priceTrend,
                         startingProgress, toasts, sockets>>
       /\ (dropped > 0 /\ frameSeq' # frameSeq)
          => /\ lastMessage' \in DropFrames
             /\ frameSeq' = frameSeq + 1
             /\ msgDirty'
             /\ lastMessage'.type = "price_update"
                => current_price' = NormalizePrice(lastMessage'.price)
       /\ (signalDropped > 0 /\ signalSeq' # signalSeq)
          => \E message \in SignalFrames :
                /\ message.type = "signal_created"
                   => signals' = <<message.data>> \o signals
                /\ message.type = "signal_updated"
                   => signals' = Replaced(signals, message.data)
                /\ message.type = "heartbeat" => signals' = signals
       ]_vars

\* each channel dropped a frame, and the push channel then delivered a price
C21_Witness ==
    /\ afterDrop
    /\ lastMessage.type = "price_update"
    /\ current_price = 102
    /\ signalDropped = 1
    /\ signalsWs = "open"


C23_LoginChangeIssuesNoFetch ==
    [][pollSeen' # pollSeen => (pollSeq' = pollSeq /\ polls' = polls)]_vars

\* C24: a status fetch that fails leaves running, logged_in, the price,
\* lastMessage, the sample buffer, the trend and the toasts as they were,
\* and leaves the interval of the polling effect active.
C24_FailedPollChangesNothing ==
    [][PollReject
       => /\ UNCHANGED <<running, logged_in, current_price, lastMessage,
                         priceHistory, priceTrend, toasts, nextToastId>>
          /\ pollTimers' = pollTimers
          /\ isMounted => pollTimers' # <<>>
       ]_vars

\* the first fetch failed after a price was pushed, and nothing else was
\* fetched: no snapshot leaves running false
C24_Witness ==
    /\ isMounted
    /\ polls = <<>>
    /\ pollSeq = 0
    /\ running = JsFalse
    /\ current_price = 102
    /\ lastMessage.type = "price_update"
    /\ pollTimers = <<3000>>

\* C25: the merge of a snapshot changes running, and logged_in, only when
\* the snapshot carries a value for it that is neither null nor missing,
\* and never changes lastMessage.
C25_MissingFlagKeepsPrevious ==
    [][\A data \in PollSnapshots :
          (isMounted /\ PollResolve(data))
             => /\ running' = IF data.running \in {JsNull, JsUndefined}
                              THEN running ELSE data.running
                /\ logged_in' = IF data.logged_in \in {JsNull, JsUndefined}
                                THEN logged_in ELSE data.logged_in
                /\ lastMessage' = lastMessage
       ]_vars


(* ---------------------------------------------------------------------- *)
(* Properties of teardown                                                  *)
(* ---------------------------------------------------------------------- *)
\* C26: once the component that owns a callback has been torn down, the
\* callback changes nothing: after the teardown of Layout no step changes
\* BotStatus, the price tracker or the toasts, and after the teardown of the
\* strategy list page no step of its commands and reloads changes the toasts
\* or the state of the page.
C26_NothingChangesAfterTeardown ==
    [][/\ ~isMounted
          => UNCHANGED <<running, logged_in, current_price, lastMessage,
                         priceHistory, priceTrend, toasts>>
       /\ (~pageMounted /\ (cmds' # cmds \/ loads' # loads))
          => UNCHANGED <<toasts, strategies, loading, actionLoading,
                         errorMessage, startingStrategyId, startingProgress>>
       ]_vars


(* ---------------------------------------------------------------------- *)
(* Properties of the toasts                                                *)
(* ---------------------------------------------------------------------- *)
\* the ids of a queue are pairwise different
UniqueIds(queue) ==
    \A i, j \in DOMAIN queue : i # j => queue[i].id # queue[j].id

\* C27: neither toast queue ever holds two toasts with the same id, so the
\* id a show allocates differs from the id of every toast in the queue,
\* also when two shows fall into the same millisecond.
C27_ToastIdsUnique ==
    UniqueIds(toasts) /\ UniqueIds(providerToasts)

\* the toast with this id is in the queue of Layout
Shown(id) == \E i \in DOMAIN toasts : toasts[i].id = id

\* the toast with this id is in the queue of the provider
ProviderShown(id) == \E i \in DOMAIN providerToasts : providerToasts[i].id = id

\* C28: every toast that is in a queue is eventually out of it, whether or
\* not anybody clicks on it.
C28_EveryToastExpires ==
    /\ \A id \in ToastIds : Shown(id) ~> ~Shown(id)
    /\ \A id \in ProviderIds : ProviderShown(id) ~> ~ProviderShown(id)


(* ---------------------------------------------------------------------- *)
(* Properties of the frame retained at a start                             *)
(* ---------------------------------------------------------------------- *)
\* C29: the run of the startup effect that a start causes, on the frame
\* that lastMessage retained from before the start (no frame has arrived
\* since the effect last ran), changes neither the progress nor the pending
\* id and issues neither a reload nor a toast, also when that frame is an
\* order_created or strategy_started frame for the started id.
C29_RetainedFrameIgnored ==
    [][(/\ EffectStep
        /\ ~msgDirty
        /\ startingStrategyId \in Ids
        /\ StartFrameHeld)
       => UNCHANGED <<startingStrategyId, startingProgress, loads, toasts>>]_vars


(* ---------------------------------------------------------------------- *)
(* Properties of the reloads                                               *)
(* ---------------------------------------------------------------------- *)
\* C30: the displayed list is the response to the reload issued last among
\* those answered: the response to a request issued before the one whose
\* response is displayed leaves the list as it is.
C30_LatestReloadWins ==
    [][(pageMounted /\ staleLoads' < staleLoads)
       => strategies' = strategies]_vars


====
